---------------------------- MODULE Spec2Model ----------------------------
(***************************************************************************)
(* Model of robinskj/NextSample:                                           *)
(*   src/app/lib/actions.ts        the server actions (customers,          *)
(*                                 invoices, authenticate)                 *)
(*   src/app/verify-data/route.ts  the diagnostic GET endpoint             *)
(*                                                                         *)
(* Spec     one server-action invocation at a time, split at its await.    *)
(* SpecGet  concurrent invocations of GET on the module-level client.      *)
(*                                                                         *)
(* JavaScript values are records [t, s, n]: t is the type tag, s the text  *)
(* of a string, n a number counted in 1/Scale units.                       *)
(***************************************************************************)
EXTENDS Integers, Sequences, FiniteSets, TLC

VARIABLES
    pc,        \* position of the server action being run
    call,      \* the invocation: function name and its arguments
    stmt,      \* the tagged-template SQL statement handed to sql, with its bound values
    effects,   \* the external calls of this invocation, in order
    ret,       \* what the invocation gave back to its caller
    gpc,       \* GET: position of each request
    gissued,   \* GET: the statements each request issued, with their outcomes
    glog,      \* GET: the statements run on the shared client, in order
    gtx,       \* GET: the request whose BEGIN opened the client's transaction (0: none)
    gresp      \* GET: the response of each request

actionVars == <<pc, call, stmt, effects, ret>>
getVars == <<gpc, gissued, glog, gtx, gresp>>
vars == <<pc, call, stmt, effects, ret, gpc, gissued, glog, gtx, gresp>>

-----------------------------------------------------------------------------
(* JavaScript values *)

Scale == 10 * 10 * 10   \* a number n stands for n/Scale

Str(s) == [t |-> "string", s |-> s, n |-> 0]
Num(n) == [t |-> "number", s |-> "", n |-> n]
NaN == [t |-> "nan", s |-> "", n |-> 0]
Null == [t |-> "null", s |-> "", n |-> 0]
Undefined == [t |-> "undefined", s |-> "", n |-> 0]

Char(s, i) == SubSeq(s, i, i)

Lower == "abcdefghijklmnopqrstuvwxyz"
Upper == "ABCDEFGHIJKLMNOPQRSTUVWXYZ"
Digits == "0123456789"

IsLetter(c) == \E i \in 1..Len(Lower) : c = Char(Lower, i) \/ c = Char(Upper, i)
IsDigit(c) == \E i \in 1..Len(Digits) : c = Char(Digits, i)
DigitVal(c) == CHOOSE d \in 0..9 : c = Char(Digits, d + 1)
ToLower(c) == IF \E i \in 1..Len(Upper) : c = Char(Upper, i)
              THEN Char(Lower, CHOOSE i \in 1..Len(Upper) : c = Char(Upper, i))
              ELSE c
IsSpace(c) == c \in {" ", "\t", "\n", "\r", "\f"}
IsLineEnd(c) == c \in {"\n", "\r"}

RECURSIVE LowerCase(_)
LowerCase(s) == IF Len(s) = 0 THEN ""
                ELSE ToLower(Char(s, 1)) \o LowerCase(SubSeq(s, 2, Len(s)))

StartsWith(s, p) == Len(s) >= Len(p) /\ SubSeq(s, 1, Len(p)) = p

(* formData.get(key): the field's value, null when the form has no such field *)
FormDataGet(formData, key) ==
    IF key \in DOMAIN formData THEN formData[key] ELSE Null

-----------------------------------------------------------------------------
(* Number(x), as z.coerce.number() applies it.  Handles null, the empty    *)
(* string and plain decimals  [-]digits[.digits]  with at most three       *)
(* fraction digits; any other text gives NaN.                              *)

RECURSIVE AllDigits(_)
AllDigits(s) == Len(s) = 0 \/ (IsDigit(Char(s, 1)) /\ AllDigits(SubSeq(s, 2, Len(s))))

RECURSIVE DigitsValue(_)
DigitsValue(s) == IF Len(s) = 0 THEN 0
                  ELSE DigitsValue(SubSeq(s, 1, Len(s) - 1)) * 10 + DigitVal(Char(s, Len(s)))

DotAt(s) == IF \E i \in 1..Len(s) : Char(s, i) = "."
            THEN CHOOSE i \in 1..Len(s) : Char(s, i) = "." /\ \A j \in 1..(i - 1) : Char(s, j) # "."
            ELSE 0

Pow10(k) == CASE k = 0 -> 1 [] k = 1 -> 10 [] k = 2 -> 100 [] OTHER -> 1000

UnsignedToNumber(s) ==
    LET d == DotAt(s)
        ip == IF d = 0 THEN s ELSE SubSeq(s, 1, d - 1)
        fp == IF d = 0 THEN "" ELSE SubSeq(s, d + 1, Len(s))
    IN  IF Len(ip) + Len(fp) = 0 \/ ~AllDigits(ip) \/ ~AllDigits(fp) \/ Len(fp) > 3
        THEN NaN
        ELSE Num(DigitsValue(ip) * Scale + DigitsValue(fp) * Pow10(3 - Len(fp)))

StringToNumber(s) ==
    IF Len(s) = 0 THEN Num(0)
    ELSE IF Char(s, 1) = "-"
         THEN LET u == UnsignedToNumber(SubSeq(s, 2, Len(s)))
              IN  IF u.t = "nan" THEN NaN ELSE Num(0 - u.n)
         ELSE UnsignedToNumber(s)

ToNumber(v) ==
    CASE v.t = "string" -> StringToNumber(v.s)
      [] v.t = "null" -> Num(0)
      [] v.t = "number" -> v
      [] OTHER -> NaN

-----------------------------------------------------------------------------
(* Schema validators (zod).  Each XIssues(v) is the list of issue messages *)
(* zod records for one field; flatten().fieldErrors keeps the fields whose *)
(* list is not empty.                                                      *)

ExpectedStringReceived(v) ==
    IF v.t = "undefined" THEN "Required" ELSE "Expected string, received " \o v.t

(* nameRegex.test(s).  nameRegex is imported from ./definitions, which is  *)
(* not among the sources; it is taken as the allowed-character pattern of  *)
(* the specification: letters, space, apostrophe, hyphen and full stop.    *)
nameRegexTest(s) ==
    \A i \in 1..Len(s) : IsLetter(Char(s, i)) \/ Char(s, i) \in {" ", "'", "-", "."}

(* /^(https?):\/\/(?=.*\.[a-z]{2,})[^\s$.?#].[^\s]*$/i *)
urlRegexTest(s) ==
    LET l == LowerCase(s)
        k == IF StartsWith(l, "https://") THEN 8
             ELSE IF StartsWith(l, "http://") THEN 7 ELSE 0
        r == SubSeq(s, k + 1, Len(s))
    IN  /\ k > 0
        /\ \E i \in 1..(Len(r) - 2) :
              /\ Char(r, i) = "."
              /\ IsLetter(Char(r, i + 1)) /\ IsLetter(Char(r, i + 2))
              /\ \A j \in 1..(i - 1) : ~IsLineEnd(Char(r, j))
        /\ Len(r) >= 2
        /\ ~IsSpace(Char(r, 1)) /\ Char(r, 1) \notin {"$", ".", "?", "#"}
        /\ ~IsLineEnd(Char(r, 2))
        /\ \A j \in 3..Len(r) : ~IsSpace(Char(r, j))

NameIssues(v) ==
    IF v.t # "string"
    THEN <<IF v.t = "undefined" THEN "Name is a required field"
           ELSE ExpectedStringReceived(v)>>
    ELSE (IF Len(v.s) < 1 THEN <<"Name must contain at least 1 character.">> ELSE <<>>)
         \o (IF ~nameRegexTest(v.s) THEN <<"Name can only have valid characters.">> ELSE <<>>)

EmailIssues(v) ==
    CASE v.t = "undefined" -> <<>>
      [] v.t = "string" -> <<>>
      [] OTHER -> <<"Invalid Email">>

UrlIssues(v) ==
    CASE v.t = "undefined" -> <<>>
      [] v.t = "string" -> IF urlRegexTest(v.s) THEN <<>> ELSE <<"Please enter a valid URL">>
      [] OTHER -> <<ExpectedStringReceived(v)>>

CustomerIdIssues(v) ==
    CASE v.t = "string" -> <<>>
      [] v.t = "undefined" -> <<"Required">>
      [] OTHER -> <<"Please select a customer.">>

(* AmountIssues with .gte(0) in place of .gt(0) *)
AmountIssuesGte(v) ==
    LET x == ToNumber(v)
    IN  IF x.t = "nan" THEN <<"Expected number, received nan">>
        ELSE IF x.n >= 0 THEN <<>>
        ELSE <<"Please enter an amount greater than $0.">>

AmountIssues(v) ==
    LET x == ToNumber(v)
    IN  IF x.t = "nan" THEN <<"Expected number, received nan">>
        ELSE IF x.n > 0 THEN <<>>
        ELSE <<"Please enter an amount greater than $0.">>

StatusIssues(v) ==
    CASE v.t = "undefined" -> <<"Required">>
      [] v.t # "string" /\ v.t # "undefined" -> <<"Please select an invoice status.">>
      [] OTHER -> IF v.s \in {"pending", "paid"} THEN <<>>
                  ELSE <<"Invalid enum value. Expected 'pending' | 'paid', received '"
                         \o v.s \o "'">>

(* error.flatten().fieldErrors for per-field issue lists *)
FieldErrors(issues) ==
    [f \in {g \in DOMAIN issues : Len(issues[g]) > 0} |-> issues[f]]

NoErrors == [f \in {} |-> <<>>]

customerSchemaSafeParse(input) ==
    LET issues == [name |-> NameIssues(input.name),
                   email |-> EmailIssues(input.email),
                   url |-> UrlIssues(input.url)]
        fe == FieldErrors(issues)
    IN  [success |-> DOMAIN fe = {}, data |-> input, fieldErrors |-> fe]

(* CreateInvoice and UpdateInvoice are the same schema: InvoiceSchema      *)
(* without id and date.                                                    *)
InvoiceSchemaSafeParse(input) ==
    LET issues == [customerId |-> CustomerIdIssues(input.customerId),
                   amount |-> AmountIssues(input.amount),
                   status |-> StatusIssues(input.status)]
        fe == FieldErrors(issues)
    IN  [success |-> DOMAIN fe = {},
         data |-> [customerId |-> input.customerId,
                   amount |-> ToNumber(input.amount),
                   status |-> input.status],
         fieldErrors |-> fe]

-----------------------------------------------------------------------------
(* Inputs: what a caller may submit *)

FormOf(vals) == [k \in {j \in DOMAIN vals : vals[j].t # "absent"} |-> vals[k]]
Absent == [t |-> "absent", s |-> "", n |-> 0]

NameInputs == {Absent, Str(""), Str("Jane Doe"), Str("J@ne")}
EmailInputs == {Absent, Str(""), Str("jane@x.com"), Str("not an email")}
UrlInputs == {Absent, Str("https://x.com"), Str("HTTP://a.b.io/p?q#r"),
              Str("ftp://x.com"), Str("http://x"), Str("https://x.com/a b")}
CustomerIdInputs == {Absent, Str(""), Str("123")}
AmountInputs == {Absent, Str(""), Str("abc"), Str("0"), Str("-1"), Str("1"),
                 Str("49.99"), Str("0.001"), Str("49.995"), Str("0.125")}
StatusInputs == {Absent, Str("pending"), Str("paid"), Str("x")}

CustomerForms == {FormOf([name |-> n, email |-> e, url |-> u]) :
                     n \in NameInputs, e \in EmailInputs, u \in UrlInputs}
InvoiceForms == {FormOf([customerId |-> c, amount |-> a, status |-> s]) :
                     c \in CustomerIdInputs, a \in AmountInputs, s \in StatusInputs}
AuthForms == {FormOf([email |-> Str("user@nextmail.com"), password |-> p]) :
                     p \in {Str("123456"), Str("wrong")}}
Ids == {Str("c1"), Str("jane@x.com")}
PrevStates == {"initial", "previous errors"}
Dates == {"2026-11-05", "2026-11-06"}

(* what the store's rejection carries *)
StoreErrors == {"ECONNREFUSED 127.0.0.1:5432",
                "duplicate key value violates unique constraint \"customers_pkey\""}

NoError == [isAuthError |-> FALSE, type |-> "", text |-> ""]
AuthErrorOf(type) == [isAuthError |-> TRUE, type |-> type, text |-> type]
OtherError(text) == [isAuthError |-> FALSE, type |-> "", text |-> text]
SignInErrors == {AuthErrorOf("CredentialsSignin"), AuthErrorOf("CallbackRouteError"),
                 AuthErrorOf("AccessDenied"),
                 OtherError("NEXT_REDIRECT"), OtherError("TypeError: fetch failed")}

-----------------------------------------------------------------------------
(* State of one invocation *)

NoForm == [k \in {} |-> Null]
NoCall == [fn |-> "none", id |-> Undefined, prevState |-> "", formData |-> NoForm]
NoStmt == [text |-> "", params |-> <<>>]
NoRet == [kind |-> "none", hasErrors |-> FALSE, errors |-> NoErrors,
          hasMessage |-> FALSE, message |-> "", error |-> NoError]

ReturnErrors(fe) == [NoRet EXCEPT !.kind = "object", !.hasErrors = TRUE, !.errors = fe]
ReturnErrorsMessage(fe, m) ==
    [NoRet EXCEPT !.kind = "object", !.hasErrors = TRUE, !.errors = fe,
                  !.hasMessage = TRUE, !.message = m]
ReturnMessage(m) == [NoRet EXCEPT !.kind = "object", !.hasMessage = TRUE, !.message = m]
ReturnString(m) == [NoRet EXCEPT !.kind = "string", !.message = m]
ReturnUndefined == [NoRet EXCEPT !.kind = "undefined"]
Throw(e) == [NoRet EXCEPT !.kind = "thrown", !.error = e]

Effect(kind, arg) == [kind |-> kind, arg |-> arg]

InitActions ==
    /\ pc = "idle"
    /\ call = NoCall
    /\ stmt = NoStmt
    /\ effects = <<>>
    /\ ret = NoRet

-----------------------------------------------------------------------------
(* Customers *)

CustomersPath == "/dashboard/customers"
InvoicesPath == "/dashboard/invoices"

(* createCustomer up to its await *)
createCustomer(prevState, formData) ==
    LET validatedFields == customerSchemaSafeParse(
                               [name |-> FormDataGet(formData, "name"),
                                email |-> FormDataGet(formData, "email"),
                                url |-> FormDataGet(formData, "url")])
        d == validatedFields.data
    IN  /\ pc = "idle"
        /\ call' = [fn |-> "createCustomer", id |-> Undefined,
                    prevState |-> prevState, formData |-> formData]
        /\ IF ~validatedFields.success
           THEN /\ pc' = "returned"
                /\ ret' = ReturnErrors(validatedFields.fieldErrors)
                /\ stmt' = NoStmt
                /\ effects' = <<Effect("safeParse", "customerSchema")>>
           ELSE /\ pc' = "awaitSql"
                /\ ret' = NoRet
                /\ stmt' = [text |-> "INSERT INTO customers (customer_id, name, url ) VALUES ($1, $2, $3)",
                            params |-> <<d.email, d.name, d.url>>]
                /\ effects' = <<Effect("safeParse", "customerSchema"), Effect("sql", "INSERT")>>
        /\ UNCHANGED getVars

(* createCustomerSettle without the revalidatePath call *)
createCustomerSettleNoRevalidate(e) ==
    /\ pc = "awaitSql" /\ call.fn = "createCustomer"
    /\ IF e # ""
       THEN /\ pc' = "returned"
            /\ ret' = ReturnMessage("Database Error: Failed to Create Customer.")
            /\ effects' = effects \o <<Effect("sqlRejected", e)>>
       ELSE /\ pc' = "redirected"
            /\ ret' = NoRet
            /\ effects' = effects \o <<Effect("sqlResolved", ""),
                                       Effect("redirect", CustomersPath)>>
    /\ UNCHANGED <<call, stmt>>
    /\ UNCHANGED getVars

(* createCustomer from the settling of its sql call on; e is the store's   *)
(* error, "" when the statement succeeded                                  *)
createCustomerSettle(e) ==
    /\ pc = "awaitSql" /\ call.fn = "createCustomer"
    /\ IF e # ""
       THEN /\ pc' = "returned"
            /\ ret' = ReturnMessage("Database Error: Failed to Create Customer.")
            /\ effects' = effects \o <<Effect("sqlRejected", e)>>
       ELSE /\ pc' = "redirected"
            /\ ret' = NoRet
            /\ effects' = effects \o <<Effect("sqlResolved", ""),
                                       Effect("revalidatePath", CustomersPath),
                                       Effect("redirect", CustomersPath)>>
    /\ UNCHANGED <<call, stmt>>
    /\ UNCHANGED getVars

(* updateCustomer up to its await *)
updateCustomer(id, prevState, formData) ==
    LET validatedFields == customerSchemaSafeParse(
                               [name |-> FormDataGet(formData, "name"),
                                email |-> FormDataGet(formData, "email"),
                                url |-> FormDataGet(formData, "url")])
        d == validatedFields.data
    IN  /\ pc = "idle"
        /\ call' = [fn |-> "updateCustomer", id |-> id,
                    prevState |-> prevState, formData |-> formData]
        /\ IF ~validatedFields.success
           THEN /\ pc' = "returned"
                /\ ret' = ReturnErrorsMessage(validatedFields.fieldErrors,
                                              "Missing Fields. Failed to Update Customer.")
                /\ stmt' = NoStmt
                /\ effects' = <<Effect("safeParse", "customerSchema")>>
           ELSE /\ pc' = "awaitSql"
                /\ ret' = NoRet
                /\ stmt' = [text |-> "UPDATE customers SET customer_id = $1, name = $2, url = $3 WHERE id = $4",
                            params |-> <<d.email, d.name, d.url, d.email>>]
                /\ effects' = <<Effect("safeParse", "customerSchema"), Effect("sql", "UPDATE")>>
        /\ UNCHANGED getVars

updateCustomerSettle(e) ==
    /\ pc = "awaitSql" /\ call.fn = "updateCustomer"
    /\ IF e # ""
       THEN /\ pc' = "returned"
            /\ ret' = ReturnMessage("Database Error: Failed to update Customer "
                                    \o stmt.params[2].s)   \* ${name}
            /\ effects' = effects \o <<Effect("sqlRejected", e)>>
       ELSE /\ pc' = "redirected"
            /\ ret' = NoRet
            /\ effects' = effects \o <<Effect("sqlResolved", ""),
                                       Effect("revalidatePath", CustomersPath),
                                       Effect("redirect", CustomersPath)>>
    /\ UNCHANGED <<call, stmt>>
    /\ UNCHANGED getVars

(* deleteCustomer up to its await *)
deleteCustomer(id) ==
    /\ pc = "idle"
    /\ call' = [fn |-> "deleteCustomer", id |-> id, prevState |-> "", formData |-> NoForm]
    /\ pc' = "awaitSql"
    /\ ret' = NoRet
    /\ stmt' = [text |-> "DELETE FROM customers WHERE email = $1", params |-> <<id>>]
    /\ effects' = <<Effect("sql", "DELETE")>>
    /\ UNCHANGED getVars

deleteCustomerSettle(e) ==
    /\ pc = "awaitSql" /\ call.fn = "deleteCustomer"
    /\ pc' = "returned"
    /\ IF e # ""
       THEN /\ ret' = ReturnMessage("Database Error: Failed to delete")
            /\ effects' = effects \o <<Effect("sqlRejected", e)>>
       ELSE /\ ret' = ReturnUndefined
            /\ effects' = effects \o <<Effect("sqlResolved", ""),
                                       Effect("revalidatePath", CustomersPath)>>
    /\ UNCHANGED <<call, stmt>>
    /\ UNCHANGED getVars

-----------------------------------------------------------------------------
(* Invoices *)

(* amount * 100 *)
AmountInCents(amount) == Num(amount.n * 100)

(* createInvoice up to its await; date is new Date().toISOString().split('T')[0] *)
createInvoice(prevState, formData, date) ==
    LET validatedFields == InvoiceSchemaSafeParse(
                               [customerId |-> FormDataGet(formData, "customerId"),
                                amount |-> FormDataGet(formData, "amount"),
                                status |-> FormDataGet(formData, "status")])
        d == validatedFields.data
    IN  /\ pc = "idle"
        /\ call' = [fn |-> "createInvoice", id |-> Undefined,
                    prevState |-> prevState, formData |-> formData]
        /\ IF ~validatedFields.success
           THEN /\ pc' = "returned"
                /\ ret' = ReturnErrorsMessage(validatedFields.fieldErrors,
                                              "Missing Fields. Failed to Create Invoice.")
                /\ stmt' = NoStmt
                /\ effects' = <<Effect("safeParse", "CreateInvoice")>>
           ELSE /\ pc' = "awaitSql"
                /\ ret' = NoRet
                /\ stmt' = [text |-> "INSERT INTO invoices (customer_id, amount, status, date) VALUES ($1, $2, $3, $4)",
                            params |-> <<d.customerId, AmountInCents(d.amount), d.status, Str(date)>>]
                /\ effects' = <<Effect("safeParse", "CreateInvoice"), Effect("sql", "INSERT")>>
        /\ UNCHANGED getVars

createInvoiceSettle(e) ==
    /\ pc = "awaitSql" /\ call.fn = "createInvoice"
    /\ IF e # ""
       THEN /\ pc' = "returned"
            /\ ret' = ReturnMessage("Database Error: Failed to Create Invoice.")
            /\ effects' = effects \o <<Effect("sqlRejected", e)>>
       ELSE /\ pc' = "redirected"
            /\ ret' = NoRet
            /\ effects' = effects \o <<Effect("sqlResolved", ""),
                                       Effect("revalidatePath", InvoicesPath),
                                       Effect("redirect", InvoicesPath)>>
    /\ UNCHANGED <<call, stmt>>
    /\ UNCHANGED getVars

(* updateInvoice up to its await *)
updateInvoice(id, prevState, formData) ==
    LET validatedFields == InvoiceSchemaSafeParse(
                               [customerId |-> FormDataGet(formData, "customerId"),
                                amount |-> FormDataGet(formData, "amount"),
                                status |-> FormDataGet(formData, "status")])
        d == validatedFields.data
    IN  /\ pc = "idle"
        /\ call' = [fn |-> "updateInvoice", id |-> id,
                    prevState |-> prevState, formData |-> formData]
        /\ IF ~validatedFields.success
           THEN /\ pc' = "returned"
                /\ ret' = ReturnErrorsMessage(validatedFields.fieldErrors,
                                              "Missing Fields. Failed to Update Invoice.")
                /\ stmt' = NoStmt
                /\ effects' = <<Effect("safeParse", "UpdateInvoice")>>
           ELSE /\ pc' = "awaitSql"
                /\ ret' = NoRet
                /\ stmt' = [text |-> "UPDATE invoices SET customer_id = $1, amount = $2, status = $3 WHERE id = $4",
                            params |-> <<d.customerId, AmountInCents(d.amount), d.status, id>>]
                /\ effects' = <<Effect("safeParse", "UpdateInvoice"), Effect("sql", "UPDATE")>>
        /\ UNCHANGED getVars

updateInvoiceSettle(e) ==
    /\ pc = "awaitSql" /\ call.fn = "updateInvoice"
    /\ IF e # ""
       THEN /\ pc' = "returned"
            /\ ret' = ReturnMessage("Database Error: Failed to update " \o call.id.s)
            /\ effects' = effects \o <<Effect("sqlRejected", e)>>
       ELSE /\ pc' = "redirected"
            /\ ret' = NoRet
            /\ effects' = effects \o <<Effect("sqlResolved", ""),
                                       Effect("revalidatePath", InvoicesPath),
                                       Effect("redirect", InvoicesPath)>>
    /\ UNCHANGED <<call, stmt>>
    /\ UNCHANGED getVars

(* deleteInvoice up to its await *)
deleteInvoice(id) ==
    /\ pc = "idle"
    /\ call' = [fn |-> "deleteInvoice", id |-> id, prevState |-> "", formData |-> NoForm]
    /\ pc' = "awaitSql"
    /\ ret' = NoRet
    /\ stmt' = [text |-> "DELETE FROM invoices WHERE id = $1", params |-> <<id>>]
    /\ effects' = <<Effect("sql", "DELETE")>>
    /\ UNCHANGED getVars

(* deleteInvoiceSettle without the try/catch: the store's error escapes *)
deleteInvoiceSettleRethrow(e) ==
    /\ pc = "awaitSql" /\ call.fn = "deleteInvoice"
    /\ IF e # ""
       THEN /\ pc' = "thrown"
            /\ ret' = Throw(OtherError(e))
            /\ effects' = effects \o <<Effect("sqlRejected", e)>>
       ELSE /\ pc' = "returned"
            /\ ret' = ReturnUndefined
            /\ effects' = effects \o <<Effect("sqlResolved", ""),
                                       Effect("revalidatePath", InvoicesPath)>>
    /\ UNCHANGED <<call, stmt>>
    /\ UNCHANGED getVars

deleteInvoiceSettle(e) ==
    /\ pc = "awaitSql" /\ call.fn = "deleteInvoice"
    /\ pc' = "returned"
    /\ IF e # ""
       THEN /\ ret' = ReturnMessage("Database Error: Failed to delete")
            /\ effects' = effects \o <<Effect("sqlRejected", e)>>
       ELSE /\ ret' = ReturnUndefined
            /\ effects' = effects \o <<Effect("sqlResolved", ""),
                                       Effect("revalidatePath", InvoicesPath)>>
    /\ UNCHANGED <<call, stmt>>
    /\ UNCHANGED getVars

-----------------------------------------------------------------------------
(* Authentication *)

(* authenticate up to its await *)
authenticate(prevState, formData) ==
    /\ pc = "idle"
    /\ call' = [fn |-> "authenticate", id |-> Undefined,
                prevState |-> prevState, formData |-> formData]
    /\ pc' = "awaitSignIn"
    /\ ret' = NoRet
    /\ stmt' = NoStmt
    /\ effects' = <<Effect("signIn", "credentials")>>
    /\ UNCHANGED getVars

(* authenticateSettle with every error mapped to a message, none re-thrown *)
authenticateSettleSwallow(error) ==
    /\ pc = "awaitSignIn" /\ call.fn = "authenticate"
    /\ pc' = "returned"
    /\ IF error = NoError
       THEN /\ ret' = ReturnUndefined
            /\ effects' = effects \o <<Effect("signInResolved", "")>>
       ELSE /\ effects' = effects \o <<Effect("signInRejected", error.text)>>
            /\ ret' = IF error.type = "CredentialsSignin"
                      THEN ReturnString("Invalid credentials.")
                      ELSE ReturnString("Something went wrong.")
    /\ UNCHANGED <<call, stmt>>
    /\ UNCHANGED getVars

(* authenticate from the settling of signIn on; error is NoError when      *)
(* signIn resolved                                                         *)
authenticateSettle(error) ==
    /\ pc = "awaitSignIn" /\ call.fn = "authenticate"
    /\ IF error = NoError
       THEN /\ pc' = "returned"
            /\ ret' = ReturnUndefined
            /\ effects' = effects \o <<Effect("signInResolved", "")>>
       ELSE /\ effects' = effects \o <<Effect("signInRejected", error.text)>>
            /\ IF error.isAuthError
               THEN /\ pc' = "returned"
                    /\ ret' = IF error.type = "CredentialsSignin"
                              THEN ReturnString("Invalid credentials.")
                              ELSE ReturnString("Something went wrong.")
               ELSE /\ pc' = "thrown"
                    /\ ret' = Throw(error)
    /\ UNCHANGED <<call, stmt>>
    /\ UNCHANGED getVars

(* the invocation is over; the next one starts from nothing *)
NextRequest ==
    /\ pc \in {"returned", "redirected", "thrown"}
    /\ pc' = "idle"
    /\ call' = NoCall
    /\ stmt' = NoStmt
    /\ effects' = <<>>
    /\ ret' = NoRet
    /\ UNCHANGED getVars

-----------------------------------------------------------------------------
(* The diagnostic endpoint, src/app/verify-data/route.ts.  `client` is one *)
(* connection made when the module loads; every request uses it.  The      *)
(* client runs statements in the order they are issued; a request learns   *)
(* a statement's outcome when its await resumes.                           *)

NumReq == 2
Requests == 1..NumReq

Issued(s, ok) == [stmt |-> s, ok |-> ok]
Ran(r, s, ok, tx) == [req |-> r, stmt |-> s, ok |-> ok, tx |-> tx]
NoResponse == [status |-> 0, body |-> ""]
ResponseJson(body, status) == [status |-> status, body |-> body]

InitGet ==
    /\ gpc = [r \in Requests |-> "idle"]
    /\ gissued = [r \in Requests |-> <<>>]
    /\ glog = <<>>
    /\ gtx = 0
    /\ gresp = [r \in Requests |-> NoResponse]

(* the connection's transaction after statement s of request r: BEGIN      *)
(* opens one unless one is open, COMMIT and ROLLBACK close the open one    *)
ClientTx(tx, r, s, ok) ==
    CASE ~ok -> tx
      [] ok /\ s = "BEGIN" -> IF tx = 0 THEN r ELSE tx
      [] ok /\ s \in {"COMMIT", "ROLLBACK"} -> 0
      [] OTHER -> tx

(* client.sql`s` issued by request r, which then waits at `at` *)
ClientSql(r, s, ok, at) ==
    /\ glog' = Append(glog, Ran(r, s, ok, gtx))
    /\ gtx' = ClientTx(gtx, r, s, ok)
    /\ gissued' = [gissued EXCEPT ![r] = Append(@, Issued(s, ok))]
    /\ gpc' = [gpc EXCEPT ![r] = at]

LastOk(r) == gissued[r][Len(gissued[r])].ok

(* GET is called: line 7 up to its await *)
GetCall(r, ok) ==
    /\ gpc[r] = "idle"
    /\ ClientSql(r, "BEGIN", ok, "awaitBegin")
    /\ UNCHANGED gresp
    /\ UNCHANGED actionVars

(* BEGIN settled: line 8 up to its await, or the catch block's line 14 *)
GetAfterBegin(r, ok) ==
    /\ gpc[r] = "awaitBegin"
    /\ IF LastOk(r)
       THEN ClientSql(r, "SELECT", ok, "awaitSelect")
       ELSE ClientSql(r, "ROLLBACK", ok, "awaitRollback")
    /\ UNCHANGED gresp
    /\ UNCHANGED actionVars

(* SELECT settled: lines 9-10 up to the await, or line 14 *)
GetAfterSelect(r, ok) ==
    /\ gpc[r] = "awaitSelect"
    /\ IF LastOk(r)
       THEN ClientSql(r, "COMMIT", ok, "awaitCommit")
       ELSE ClientSql(r, "ROLLBACK", ok, "awaitRollback")
    /\ UNCHANGED gresp
    /\ UNCHANGED actionVars

(* COMMIT settled: line 12, or line 14 *)
GetAfterCommit(r, ok) ==
    /\ gpc[r] = "awaitCommit"
    /\ IF LastOk(r)
       THEN /\ gpc' = [gpc EXCEPT ![r] = "responded"]
            /\ gresp' = [gresp EXCEPT ![r] = ResponseJson("{ message: 'success' }", 200)]
            /\ UNCHANGED <<gissued, glog, gtx>>
       ELSE /\ ClientSql(r, "ROLLBACK", ok, "awaitRollback")
            /\ UNCHANGED gresp
    /\ UNCHANGED actionVars

(* ROLLBACK settled: line 15, or its rejection leaves the catch block *)
GetAfterRollback(r) ==
    /\ gpc[r] = "awaitRollback"
    /\ IF LastOk(r)
       THEN /\ gpc' = [gpc EXCEPT ![r] = "responded"]
            /\ gresp' = [gresp EXCEPT ![r] = ResponseJson("{ error }", 500)]
       ELSE /\ gpc' = [gpc EXCEPT ![r] = "thrown"]
            /\ UNCHANGED gresp
    /\ UNCHANGED <<gissued, glog, gtx>>
    /\ UNCHANGED actionVars

-----------------------------------------------------------------------------
(* Specifications *)

Init == InitActions /\ InitGet

Next ==
    \/ \E p \in PrevStates, f \in CustomerForms : createCustomer(p, f)
    \/ \E e \in StoreErrors \cup {""} : createCustomerSettle(e)
    \/ \E i \in Ids, p \in PrevStates, f \in CustomerForms : updateCustomer(i, p, f)
    \/ \E e \in StoreErrors \cup {""} : updateCustomerSettle(e)
    \/ \E i \in Ids : deleteCustomer(i)
    \/ \E e \in StoreErrors \cup {""} : deleteCustomerSettle(e)
    \/ \E p \in PrevStates, f \in InvoiceForms, d \in Dates : createInvoice(p, f, d)
    \/ \E e \in StoreErrors \cup {""} : createInvoiceSettle(e)
    \/ \E i \in Ids, p \in PrevStates, f \in InvoiceForms : updateInvoice(i, p, f)
    \/ \E e \in StoreErrors \cup {""} : updateInvoiceSettle(e)
    \/ \E i \in Ids : deleteInvoice(i)
    \/ \E e \in StoreErrors \cup {""} : deleteInvoiceSettle(e)
    \/ \E p \in PrevStates, f \in AuthForms : authenticate(p, f)
    \/ \E e \in SignInErrors \cup {NoError} : authenticateSettle(e)
    \/ NextRequest

Spec == Init /\ [][Next]_vars

NextGet ==
    \/ \E r \in Requests, ok \in BOOLEAN : GetCall(r, ok)
    \/ \E r \in Requests, ok \in BOOLEAN : GetAfterBegin(r, ok)
    \/ \E r \in Requests, ok \in BOOLEAN : GetAfterSelect(r, ok)
    \/ \E r \in Requests, ok \in BOOLEAN : GetAfterCommit(r, ok)
    \/ \E r \in Requests : GetAfterRollback(r)

SpecGet == Init /\ [][NextGet]_vars

-----------------------------------------------------------------------------
(* Properties *)

Mutations == {"createCustomer", "updateCustomer", "deleteCustomer",
              "createInvoice", "updateInvoice", "deleteInvoice"}
Validating == {"createCustomer", "updateCustomer", "createInvoice", "updateInvoice"}
CustomerFns == {"createCustomer", "updateCustomer", "deleteCustomer"}
OwningPath(fn) == IF fn \in CustomerFns THEN CustomersPath ELSE InvoicesPath
Over == pc \in {"returned", "redirected", "thrown"}

At(kind) == {i \in 1..Len(effects) : effects[i].kind = kind}
Happened(kind) == At(kind) # {}
Contains(s, sub) ==
    \E i \in 1..(Len(s) - Len(sub) + 1) : SubSeq(s, i, i + Len(sub) - 1) = sub

(* the place of an effect in validate -> persist -> invalidate -> redirect *)
Stage(kind) ==
    CASE kind = "safeParse" -> 1
      [] kind \in {"sql", "sqlResolved", "sqlRejected"} -> 2
      [] kind = "revalidatePath" -> 3
      [] kind = "redirect" -> 4
      [] OTHER -> 0

(* C1: a mutation handler whose SQL statement succeeded calls               *)
(* revalidatePath exactly once, for its listing path and after the          *)
(* statement completed; create and update handlers then redirect exactly    *)
(* once to the same path as their last effect, delete handlers never        *)
(* redirect; and in every call the effects come in the order validate,      *)
(* persist, invalidate, redirect.                                           *)
C1_SuccessEffects ==
    call.fn \in Mutations =>
      /\ \A i, j \in 1..Len(effects) :
            i < j => /\ Stage(effects[i].kind) <= Stage(effects[j].kind)
                     /\ effects[i].kind = effects[j].kind => i = j
      /\ (Over /\ Happened("sqlResolved")) =>
            /\ Cardinality(At("revalidatePath")) = 1
            /\ \A i \in At("revalidatePath") :
                  /\ effects[i].arg = OwningPath(call.fn)
                  /\ \A k \in At("sqlResolved") : k < i
            /\ IF call.fn \in Validating
               THEN /\ Cardinality(At("redirect")) = 1
                    /\ effects[Len(effects)] = Effect("redirect", OwningPath(call.fn))
                    /\ pc = "redirected"
               ELSE /\ ~Happened("redirect")
                    /\ pc = "returned"

C1_Witness ==
    /\ call.fn = "createCustomer" /\ pc = "redirected"
    /\ Happened("revalidatePath") /\ Happened("redirect")

(* C2: when the SQL statement of a mutation handler fails, the handler      *)
(* does not throw; it returns a message that starts with 'Database Error:'  *)
(* and holds nothing of the store's error, and it calls neither             *)
(* revalidatePath nor redirect.                                             *)
C2_DatabaseError ==
    (call.fn \in Mutations /\ Happened("sqlRejected")) =>
      /\ pc = "returned"
      /\ ret.kind = "object"
      /\ ret.hasMessage
      /\ StartsWith(ret.message, "Database Error:")
      /\ \A i \in At("sqlRejected") : ~Contains(ret.message, effects[i].arg)
      /\ ret.error = NoError
      /\ ~Happened("revalidatePath")
      /\ ~Happened("redirect")

C2_Witness ==
    /\ call.fn = "deleteInvoice" /\ Happened("sqlRejected") /\ pc = "returned"

(* the rules of section 4.1, on the submitted form *)
NameViolates(f) ==
    LET v == FormDataGet(f, "name")
    IN  v.t # "string" \/ Len(v.s) = 0 \/ ~nameRegexTest(v.s)
EmailViolates(f) == FALSE
UrlViolates(f) == "url" \in DOMAIN f /\ ~urlRegexTest(f["url"].s)
CustomerIdViolates(f) == "customerId" \notin DOMAIN f
AmountViolates(f) ==
    LET x == ToNumber(FormDataGet(f, "amount"))
    IN  "amount" \notin DOMAIN f \/ x.t = "nan" \/ x.n <= 0
StatusViolates(f) == FormDataGet(f, "status") \notin {Str("pending"), Str("paid")}

(* the violations C3 lists *)
ListedViolations ==
    IF call.fn \in {"createCustomer", "updateCustomer"}
    THEN {g \in {"name"} : NameViolates(call.formData)}
    ELSE {g \in {"customerId"} : CustomerIdViolates(call.formData)}
         \cup {g \in {"amount"} : AmountViolates(call.formData)}
         \cup {g \in {"status"} : StatusViolates(call.formData)}

(* C3: a form that breaks a validator rule (name empty or with disallowed   *)
(* characters; amount <= 0, missing or not a number; status neither         *)
(* 'pending' nor 'paid'; customerId missing) gets a result whose errors     *)
(* have an entry for each such field, and the call issues no SQL            *)
(* statement, no revalidatePath and no redirect.                            *)
C3_InvalidInput ==
    (call.fn \in Validating /\ ListedViolations # {}) =>
      /\ pc = "returned"
      /\ ret.hasErrors
      /\ ListedViolations \subseteq DOMAIN ret.errors
      /\ stmt = NoStmt
      /\ ~Happened("sql") /\ ~Happened("revalidatePath") /\ ~Happened("redirect")

C3_Witness ==
    /\ call.fn = "createInvoice" /\ pc = "returned"
    /\ FormDataGet(call.formData, "amount") = Str("0")
    /\ FormDataGet(call.formData, "customerId") = Str("123")
    /\ FormDataGet(call.formData, "status") = Str("pending")
    /\ DOMAIN ret.errors = {"amount"}

(* C4: the UPDATE of updateCustomer and updateInvoice binds its WHERE       *)
(* clause to the id argument, whatever the form holds.                      *)
C4_WhereIsId ==
    (call.fn \in {"updateCustomer", "updateInvoice"} /\ Happened("sql")) =>
      stmt.params[Len(stmt.params)] = call.id

(* Math.round of a non-negative number *)
Round(n) == ((n + Scale \div 2) \div Scale) * Scale

(* C5: the amount createInvoice and updateInvoice bind into their SQL       *)
(* statement is a whole number of cents, round(amount_input * 100).         *)
C5_IntegerCents ==
    (call.fn \in {"createInvoice", "updateInvoice"} /\ Happened("sql")) =>
      LET bound == stmt.params[2]
          input == ToNumber(FormDataGet(call.formData, "amount"))
      IN  /\ bound.t = "number"
          /\ bound.n % Scale = 0
          /\ bound.n = Round(input.n * 100)

(* C6: with a valid name and a url that is absent or matches the pattern,   *)
(* createCustomer and updateCustomer accept the form and issue their SQL    *)
(* statement, whether the email is absent or any string.                    *)
C6_OptionalFields ==
    (/\ call.fn \in {"createCustomer", "updateCustomer"}
     /\ ~NameViolates(call.formData)
     /\ ~UrlViolates(call.formData)) =>
      /\ ~ret.hasErrors
      /\ Happened("sql")

SignInErrorOf(text) == CHOOSE e \in SignInErrors : e.text = text

(* C7: authenticate calls signIn('credentials', formData) once; when it     *)
(* resolves nothing is returned, an AuthError of type CredentialsSignin     *)
(* gives 'Invalid credentials.', any other AuthError gives 'Something went  *)
(* wrong.', any other error is re-thrown as it is; prevState plays no part. *)
C7_Authenticate ==
    call.fn = "authenticate" =>
      /\ Cardinality(At("signIn")) = 1
      /\ effects[1] = Effect("signIn", "credentials")
      /\ Len(effects) <= 2
      /\ pc = "awaitSignIn" <=> Len(effects) = 1
      /\ Happened("signInResolved") => (pc = "returned" /\ ret = ReturnUndefined)
      /\ \A i \in At("signInRejected") :
            LET error == SignInErrorOf(effects[i].arg)
            IN  CASE error.isAuthError /\ error.type = "CredentialsSignin" ->
                       pc = "returned" /\ ret = ReturnString("Invalid credentials.")
                  [] error.isAuthError /\ error.type # "CredentialsSignin" ->
                       pc = "returned" /\ ret = ReturnString("Something went wrong.")
                  [] OTHER ->
                       pc = "thrown" /\ ret = Throw(error)

C7_Witness ==
    /\ call.fn = "authenticate" /\ pc = "thrown"
    /\ call.prevState = "previous errors"
    /\ ret.error = OtherError("NEXT_REDIRECT")

(* C9: the fields with an entry in the returned errors are exactly the      *)
(* fields whose rule the form breaks.                                       *)
C9_AllFieldErrors ==
    (call.fn \in Validating /\ pc # "idle") =>
      LET f == call.formData
          broken == IF call.fn \in {"createCustomer", "updateCustomer"}
                    THEN {g \in {"name"} : NameViolates(f)}
                         \cup {g \in {"email"} : EmailViolates(f)}
                         \cup {g \in {"url"} : UrlViolates(f)}
                    ELSE ListedViolations
      IN  DOMAIN ret.errors = IF Happened("sql") THEN {} ELSE broken

-----------------------------------------------------------------------------
(* Properties of the diagnostic endpoint *)

Stmts(r) == [i \in 1..Len(gissued[r]) |-> gissued[r][i].stmt]
Ended(r) == gpc[r] \in {"responded", "thrown"}

(* C8: a request to GET never ends with a thrown error or with the          *)
(* transaction it opened still open; it ends with {message: 'success'},     *)
(* status 200, after BEGIN, SELECT and COMMIT all succeeded in that order,  *)
(* or with {error}, status 500, after one of them failed, ROLLBACK was      *)
(* issued and no COMMIT followed the failure.                               *)
C8_AlwaysResponds ==
    \A r \in Requests :
      /\ gpc[r] # "thrown"
      /\ Ended(r) => gtx # r
      /\ gpc[r] = "responded" =>
            \/ /\ gresp[r] = ResponseJson("{ message: 'success' }", 200)
               /\ gissued[r] = <<Issued("BEGIN", TRUE), Issued("SELECT", TRUE),
                                 Issued("COMMIT", TRUE)>>
            \/ /\ gresp[r] = ResponseJson("{ error }", 500)
               /\ \E i \in 1..Len(gissued[r]) :
                     /\ ~gissued[r][i].ok
                     /\ gissued[r][i].stmt \in {"BEGIN", "SELECT", "COMMIT"}
                     /\ Stmts(r) = SubSeq(<<"BEGIN", "SELECT", "COMMIT">>, 1, i)
                                     \o <<"ROLLBACK">>

(* C10: on the client, the statements of one request are never interleaved  *)
(* with those of another: no SELECT runs outside the transaction its own    *)
(* request opened, and no COMMIT or ROLLBACK closes a transaction that      *)
(* another request opened.                                                  *)
C10_Independent ==
    /\ \A i, j, k \in 1..Len(glog) :
          (i < j /\ j < k /\ glog[i].req = glog[k].req) => glog[j].req = glog[i].req
    /\ \A i \in 1..Len(glog) :
          /\ glog[i].stmt = "SELECT" => glog[i].tx = glog[i].req
          /\ (glog[i].stmt \in {"COMMIT", "ROLLBACK"} /\ glog[i].ok /\ glog[i].tx # 0)
                => glog[i].tx = glog[i].req

=============================================================================
